---------------------------- MODULE Spec2Model ----------------------------
(***************************************************************************)
(* Wordlist Merger (src/Wordlist Merger/Wordlist Merger.cpp).              *)
(*                                                                         *)
(* wildcardMatch, expandFilePaths, weaveMergeDedup and main as one state   *)
(* machine.  Strings are sequences of one-character strings; indices into  *)
(* them are kept 0-based as in the source (text[tIdx] is text[tIdx + 1]).  *)
(***************************************************************************)
EXTENDS Integers, Sequences, FiniteSets, TLC

(***************************************************************************)
(* Bounds of the model.                                                    *)
(***************************************************************************)
\* longest candidate string and longest pattern handed to wildcardMatch
MaxText == 3
MaxPattern == 3
\* most input files of one merge, and most bytes in all of them together
MaxFiles == 2
MaxTotal == 4
\* number of values std::hash<string> may return
NumDigests == 3
\* most patterns handed to expandFilePaths
MaxPatterns == 2
\* most command-line arguments after argv[0]
MaxArgs == 3

\* '\n', the delimiter of getline
NL == "\n"
\* the characters candidates and patterns of wildcardMatch are drawn from
MatchChars == {"a", "b", "*", "?"}
\* string::npos
Npos == -1

RECURSIVE SeqsUpTo(_, _)
\* every sequence over S of length at most n
SeqsUpTo(S, n) ==
  IF n = 0 THEN {<<>>}
  ELSE LET shorter == SeqsUpTo(S, n - 1)
       IN  shorter \cup {Append(s, c) : s \in {x \in shorter : Len(x) = n - 1}, c \in S}

\* the bytes of input files
FileBytes == {"a", "b", NL}
\* the values of size_t that hasher returns
Digests == 1 .. NumDigests
\* the names of the input files of a merge, by position
PathNames == <<"a", "b", "c", "d">>
PathOf(i) == [dir |-> <<"d">>, name |-> <<PathNames[i]>>]

VARIABLES
  \* wildcardMatch called on its own: the arguments, the call's position, the result
  text, pattern, matchPc, matchResult,
  \* the file system as weaveMergeDedup sees it: path -> [openable, content]
  disk,
  \* std::hash<string>, as far as it has been evaluated: line -> digest
  hashOf,
  \* weaveMergeDedup: its argument, its locals and its position
  filePaths, files, written, anyAlive, iterations, idx, pc,
  \* the lines written to out, each followed by '\n'
  out,
  \* what was written to cerr (warnings and errors only)
  cerr,
  \* history: for each line of out, the <<cursor, round>> it was read at
  outSrc,
  \* history: per cursor, the rounds in which getline yielded a line, and the
  \* round in which getline failed (0: never)
  readRounds, failRound,
  \* history: the number of lines read in each completed round, and in this one
  roundGot, got,
  \* a second call of weaveMergeDedup: which call this is, and the first one's output
  phase, out1,
  \* the file system as std::filesystem sees it: directory -> [kind, entries]
  fs,
  \* expandFilePaths: its argument, the range-for's position, result, its position
  patterns, patIdx, result, epc,
  \* history: for each path of result, the index of the pattern that added it
  origin,
  \* main: argv[1 ..], whether the output file can be created, main's position
  \* and how the process ended
  args, outOpenable, mpc, exitKind

matchVars == <<text, pattern, matchPc, matchResult>>
mergeVars == <<filePaths, files, written, anyAlive, iterations, idx, pc, out,
               outSrc, readRounds, failRound, roundGot, got>>
envVars == <<disk, fs, outOpenable>>
idemVars == <<phase, out1>>
expandVars == <<patterns, patIdx, result, epc, origin>>
mainVars == <<args, mpc, exitKind>>
vars == <<matchVars, disk, fs, outOpenable, hashOf, mergeVars, cerr, idemVars,
          expandVars, mainVars>>

(***************************************************************************)
(* wildcardMatch                                                           *)
(***************************************************************************)
RECURSIVE SkipStars(_, _)
\* the trailing loop: while (pIdx < pattern.length() && pattern[pIdx] == '*') pIdx++
SkipStars(p, pIdx) ==
  IF pIdx < Len(p) /\ p[pIdx + 1] = "*" THEN SkipStars(p, pIdx + 1) ELSE pIdx

RECURSIVE WildcardLoop(_, _, _, _, _, _)
\* the main loop, one unfolding per iteration, then the trailing loop and the return
WildcardLoop(t, p, tIdx, pIdx, starIdx, matchIdx) ==
  IF tIdx < Len(t)
  THEN IF pIdx < Len(p) /\ (p[pIdx + 1] = "?" \/ p[pIdx + 1] = t[tIdx + 1])
       THEN WildcardLoop(t, p, tIdx + 1, pIdx + 1, starIdx, matchIdx)
       ELSE IF pIdx < Len(p) /\ p[pIdx + 1] = "*"
       THEN WildcardLoop(t, p, tIdx, pIdx + 1, pIdx, tIdx)
       ELSE IF starIdx # Npos
       THEN WildcardLoop(t, p, matchIdx + 1, starIdx + 1, starIdx, matchIdx + 1)
       ELSE FALSE
  ELSE SkipStars(p, pIdx) = Len(p)

wildcardMatch(t, p) == WildcardLoop(t, p, 0, 0, Npos, 0)

(***************************************************************************)
(* expandFilePaths                                                         *)
(*                                                                         *)
(* A path is [dir, name]: fs::path's parent_path() and filename().  A      *)
(* directory of fs is [kind, entries]: kind is "dir", "missing", "notdir"  *)
(* or "error" (the status query raises filesystem_error); an entry is      *)
(* [name, kind] with kind "regular", "other" or "error" (the query on the  *)
(* entry raises filesystem_error).                                         *)
(***************************************************************************)
\* pattern.find('*') != npos || pattern.find('?') != npos, on the whole string
HasWildcard(p) ==
  \E k \in 1 .. Len(p.dir) + Len(p.name) : (p.dir \o p.name)[k] \in {"*", "?"}

\* lines 49-55: the directory to list, "." when the pattern names none
ParentPath(p) == IF p.dir = <<>> THEN <<".">> ELSE p.dir

\* the status of a directory
DirStatus(d) == IF d \in DOMAIN fs THEN fs[d].kind ELSE "missing"

\* the status of the file a literal pattern names: "regular", "other", "missing",
\* or "error" when the query raises filesystem_error
Stat(p) ==
  LET d == ParentPath(p)
      named == IF DirStatus(d) = "dir"
               THEN {k \in 1 .. Len(fs[d].entries) : fs[d].entries[k].name = p.name}
               ELSE {}
  IN  IF DirStatus(d) = "error" THEN "error"
      ELSE IF named = {} THEN "missing"
      ELSE fs[d].entries[CHOOSE k \in named : TRUE].kind

\* faulty variant: fs::exists(pattern) alone
ExistsOnly(p) == Stat(p) \in {"regular", "other"}

\* line 75: fs::exists(pattern) && fs::is_regular_file(pattern), where neither throws
ExistsRegular(p) == Stat(p) = "regular"

RECURSIVE ScanDir(_, _, _, _, _)
\* lines 59-66: the entries from the k-th on; the regular files whose name matches
\* are collected until the iteration ends or raises filesystem_error
ScanDir(entries, k, parent, filename, found) ==
  IF k > Len(entries) THEN [found |-> found, threw |-> FALSE]
  ELSE IF entries[k].kind = "error" THEN [found |-> found, threw |-> TRUE]
  ELSE IF entries[k].kind = "regular" /\ wildcardMatch(entries[k].name, filename)
       THEN ScanDir(entries, k + 1, parent, filename,
                    Append(found, [dir |-> parent, name |-> entries[k].name]))
       ELSE ScanDir(entries, k + 1, parent, filename, found)

\* a call expandFilePaths(pats), as the next state
ExpandCall(pats) ==
  /\ patterns' = pats
  /\ patIdx' = 1
  /\ result' = <<>>
  /\ origin' = <<>>
  /\ epc' = "loop"

\* lines 73-80: a pattern without wildcard whose status query does not throw
ExpandLiteral ==
  /\ epc = "loop"
  /\ patIdx <= Len(patterns)
  /\ LET p == patterns[patIdx]
     IN  /\ ~HasWildcard(p)
         /\ Stat(p) # "error"
         /\ IF ExistsRegular(p)
            THEN /\ result' = Append(result, p)
                 /\ origin' = Append(origin, patIdx)
                 /\ cerr' = cerr
            ELSE /\ cerr' = Append(cerr, <<"Warning: File not found or not a regular file", p>>)
                 /\ UNCHANGED <<result, origin>>
  /\ patIdx' = patIdx + 1
  /\ UNCHANGED <<patterns, epc>>
  /\ UNCHANGED <<matchVars, envVars, hashOf, mergeVars, idemVars, mainVars>>

\* line 75: fs::exists(pattern) raises filesystem_error outside any try block, and
\* the exception leaves expandFilePaths
ExpandLiteralThrows ==
  /\ epc = "loop"
  /\ patIdx <= Len(patterns)
  /\ ~HasWildcard(patterns[patIdx])
  /\ Stat(patterns[patIdx]) = "error"
  /\ epc' = "thrown"
  /\ UNCHANGED <<patterns, patIdx, result, origin, cerr>>
  /\ UNCHANGED <<matchVars, envVars, hashOf, mergeVars, idemVars, mainVars>>

\* lines 47-72: a pattern with a wildcard
ExpandGlob ==
  /\ epc = "loop"
  /\ patIdx <= Len(patterns)
  /\ LET p == patterns[patIdx]
         parent == ParentPath(p)
         st == DirStatus(parent)
         scan == ScanDir(fs[parent].entries, 1, parent, p.name, <<>>)
     IN  /\ HasWildcard(p)
         /\ IF st = "error"
            THEN /\ cerr' = Append(cerr, <<"Warning: Error processing pattern", p>>)
                 /\ UNCHANGED <<result, origin>>
            ELSE IF st # "dir"
            THEN /\ cerr' = Append(cerr, <<"Warning: Directory not found for pattern", p>>)
                 /\ UNCHANGED <<result, origin>>
            ELSE /\ result' = result \o scan.found
                 /\ origin' = origin \o [k \in 1 .. Len(scan.found) |-> patIdx]
                 /\ cerr' = IF scan.threw
                            THEN Append(cerr, <<"Warning: Error processing pattern", p>>)
                            ELSE cerr
  /\ patIdx' = patIdx + 1
  /\ UNCHANGED <<patterns, epc>>
  /\ UNCHANGED <<matchVars, envVars, hashOf, mergeVars, idemVars, mainVars>>

\* line 83: return result
ExpandReturn ==
  /\ epc = "loop"
  /\ patIdx > Len(patterns)
  /\ epc' = "returned"
  /\ UNCHANGED <<patterns, patIdx, result, origin, cerr>>
  /\ UNCHANGED <<matchVars, envVars, hashOf, mergeVars, idemVars, mainVars>>

ExpandFilePaths ==
  \/ ExpandLiteral
  \/ ExpandLiteralThrows
  \/ ExpandGlob
  \/ ExpandReturn

\* the names of directory entries, and the file names of patterns
EntryNames == {<<"a">>, <<"a", "b">>}
PatternNames == {<<"a">>, <<"?">>, <<"*">>}
PatternSet == {[dir |-> d, name |-> n] : d \in {<<>>, <<"d">>}, n \in PatternNames}

\* every listing of a directory: entries of distinct names, in any order
Listings ==
  {l \in SeqsUpTo([name : EntryNames, kind : {"regular", "other", "error"}],
                  Cardinality(EntryNames)) :
     \A j, k \in 1 .. Len(l) : j # k => l[j].name # l[k].name}

\* every directory: one that can be listed, or one that cannot
Directories ==
  {[kind |-> "dir", entries |-> l] : l \in Listings}
    \cup {[kind |-> k, entries |-> <<>>] : k \in {"missing", "notdir", "error"}}

(***************************************************************************)
(* weaveMergeDedup                                                         *)
(***************************************************************************)
\* the locals of weaveMergeDedup(paths, out) on entry; at is "open" for a call
\* and "idle" where the function is not called
MergeEntry(paths, at) ==
  /\ filePaths = paths
  /\ files = <<>>
  /\ written = {}
  /\ anyAlive = TRUE
  /\ iterations = 0
  /\ idx = 0
  /\ pc = at
  /\ out = <<>>
  /\ outSrc = <<>>
  /\ readRounds = <<>>
  /\ failRound = <<>>
  /\ roundGot = <<>>
  /\ got = 0

\* a call weaveMergeDedup(paths, out) with a fresh output stream: the same locals,
\* as the next state
MergeCall(paths) ==
  /\ filePaths' = paths
  /\ files' = <<>>
  /\ written' = {}
  /\ anyAlive' = TRUE
  /\ iterations' = 0
  /\ idx' = 0
  /\ pc' = "open"
  /\ out' = <<>>
  /\ outSrc' = <<>>
  /\ readRounds' = <<>>
  /\ failRound' = <<>>
  /\ roundGot' = <<>>
  /\ got' = 0

\* files.emplace_back(path, ios::binary): a cursor of its own at the file's start
OpenCursor(path) == [path |-> path, pos |-> 0, eof |-> FALSE, fail |-> FALSE]

\* the file a path names: a path without a directory is relative to "."
Resolve(path) == [dir |-> IF path.dir = <<>> THEN <<".">> ELSE path.dir, name |-> path.name]

\* ifstream::is_open() after the constructor
IsOpen(path) == disk[Resolve(path)].openable

\* faulty variant: every path that opens is put at the front of files
OpenedAtFront(paths) ==
  LET o == SelectSeq(paths, IsOpen)
  IN  [k \in 1 .. Len(o) |-> o[Len(o) + 1 - k]]

\* lines 95-107: the paths that open, in the order of filePaths
Opened(paths) == SelectSeq(paths, IsOpen)

\* ios::good(): neither eofbit nor failbit is set
good(f) == ~f.eof /\ ~f.fail

RECURSIVE FindNL(_, _)
\* the position (1-based) of the first '\n' of c at or after k, 0 when there is none
FindNL(c, k) ==
  IF k > Len(c) THEN 0 ELSE IF c[k] = NL THEN k ELSE FindNL(c, k + 1)

\* faulty variant: a read that reaches the end of the file fails even when it extracted
\* characters, so a last line without a newline is lost
getlineFailsAtEof(c, pos) ==
  LET k == FindNL(c, pos + 1)
  IN  IF k # 0
      THEN [line |-> SubSeq(c, pos + 1, k - 1), pos |-> k, eof |-> FALSE, fail |-> FALSE]
      ELSE [line |-> SubSeq(c, pos + 1, Len(c)), pos |-> Len(c), eof |-> TRUE,
            fail |-> TRUE]

\* std::getline(f, line) on a good stream at pos: characters up to the delimiter,
\* which is extracted and dropped; reaching the end of the file sets eofbit, and
\* failbit too when nothing at all was extracted
getline(c, pos) ==
  LET k == FindNL(c, pos + 1)
  IN  IF k # 0
      THEN [line |-> SubSeq(c, pos + 1, k - 1), pos |-> k, eof |-> FALSE, fail |-> FALSE]
      ELSE [line |-> SubSeq(c, pos + 1, Len(c)), pos |-> Len(c), eof |-> TRUE,
            fail |-> pos = Len(c)]

\* hasher(line): a function of the line's content into size_t, fixed by the
\* library and not injective.  The program only compares digests for equality, so
\* the digest of a line not hashed before is either one already returned for
\* another line (a collision) or the least digest not returned yet.
hasher(line) ==
  IF line \in DOMAIN hashOf THEN {hashOf[line]}
  ELSE LET used == {hashOf[l] : l \in DOMAIN hashOf}
       IN  used \cup {d \in Digests : d = Cardinality(used) + 1}

\* faulty variant: the line is written whether or not its hash was there
InsertedAlways(h) == TRUE

\* written.insert(hash).second
Inserted(h) == h \notin written

\* faulty variant: written keeps the last hash only
RememberLast(h) == {h}

\* written after written.insert(hash)
Remember(h) == written \cup {h}

\* faulty variant: a cursor that yielded a line is read again at once, so that a file
\* is read to its end before the next one is looked at
NextCursorDrains(i, gotLine) == IF gotLine THEN i ELSE i + 1

\* the range-for over files: the cursor visited after cursor i
NextCursor(i, gotLine) == i + 1

\* the end of one pass over a cursor: on to the next one, or back to the while
AfterVisit(gotLine) ==
  LET n == NextCursor(idx, gotLine)
  IN  IF n > Len(files)
      THEN /\ pc' = "round"
           /\ idx' = idx
           /\ roundGot' = Append(roundGot, got')
      ELSE /\ pc' = "visit"
           /\ idx' = n
           /\ roundGot' = roundGot

\* lines 95-114: open every path, drop the ones that do not open, give up when
\* none is left
OpenFiles ==
  /\ pc = "open"
  /\ LET opened == Opened(filePaths)
         failed == SelectSeq(filePaths, LAMBDA q : ~IsOpen(q))
         warned == cerr \o [k \in 1 .. Len(failed) |-> <<"Warning: Could not open file", failed[k]>>]
     IN  /\ files' = [k \in 1 .. Len(opened) |-> OpenCursor(opened[k])]
         /\ readRounds' = [k \in 1 .. Len(opened) |-> <<>>]
         /\ failRound' = [k \in 1 .. Len(opened) |-> 0]
         /\ IF opened = <<>>
            THEN /\ cerr' = Append(warned, <<"Error: No files could be opened for weave-merge", <<>>>>)
                 /\ pc' = "returned"
            ELSE /\ cerr' = warned
                 /\ pc' = "round"
  /\ UNCHANGED <<filePaths, written, anyAlive, iterations, idx, out, outSrc, roundGot, got>>
  /\ UNCHANGED <<matchVars, envVars, hashOf, idemVars, expandVars, mainVars>>

\* lines 122-124: the while test succeeds and a round begins
RoundStart ==
  /\ pc = "round"
  /\ anyAlive
  /\ anyAlive' = FALSE
  /\ iterations' = iterations + 1
  /\ idx' = 1
  /\ got' = 0
  /\ pc' = "visit"
  /\ UNCHANGED <<filePaths, files, written, out, outSrc, readRounds, failRound, roundGot>>
  /\ UNCHANGED <<matchVars, envVars, hashOf, cerr, idemVars, expandVars, mainVars>>

\* line 127: a cursor that is not good is passed over
VisitSkip ==
  /\ pc = "visit"
  /\ ~good(files[idx])
  /\ got' = got
  /\ AfterVisit(FALSE)
  /\ UNCHANGED <<filePaths, files, written, anyAlive, iterations, out, outSrc,
                 readRounds, failRound>>
  /\ UNCHANGED <<matchVars, envVars, hashOf, cerr, idemVars, expandVars, mainVars>>

\* lines 129-140: getline yields a line, which is written unless its hash is in written
VisitRead ==
  /\ pc = "visit"
  /\ good(files[idx])
  /\ LET f == files[idx]
         g == getline(disk[Resolve(f.path)].content, f.pos)
     IN  /\ ~g.fail
         /\ files' = [files EXCEPT ![idx] = [f EXCEPT !.pos = g.pos, !.eof = g.eof]]
         /\ anyAlive' = TRUE
         /\ \E h \in hasher(g.line) :
              /\ hashOf' = (g.line :> h) @@ hashOf
              /\ written' = Remember(h)
              /\ IF Inserted(h)
                 THEN /\ out' = Append(out, g.line)
                      /\ outSrc' = Append(outSrc, <<idx, iterations>>)
                 ELSE UNCHANGED <<out, outSrc>>
  /\ readRounds' = [readRounds EXCEPT ![idx] = Append(@, iterations)]
  /\ got' = got + 1
  /\ AfterVisit(TRUE)
  /\ UNCHANGED <<filePaths, iterations, failRound>>
  /\ UNCHANGED <<matchVars, envVars, cerr, idemVars, expandVars, mainVars>>

\* faulty variant: anyAlive is set before getline is tried, so a failed read keeps the
\* loop going
VisitEofAlive ==
  /\ pc = "visit"
  /\ good(files[idx])
  /\ LET f == files[idx]
         g == getline(disk[Resolve(f.path)].content, f.pos)
     IN  /\ g.fail
         /\ files' = [files EXCEPT ![idx] = [f EXCEPT !.pos = g.pos, !.eof = g.eof, !.fail = TRUE]]
  /\ failRound' = [failRound EXCEPT ![idx] = iterations]
  /\ got' = got
  /\ anyAlive' = TRUE
  /\ AfterVisit(FALSE)
  /\ UNCHANGED <<filePaths, written, iterations, out, outSrc, readRounds>>
  /\ UNCHANGED <<matchVars, envVars, hashOf, cerr, idemVars, expandVars, mainVars>>

\* line 129: getline finds the end of the file and yields nothing
VisitEof ==
  /\ pc = "visit"
  /\ good(files[idx])
  /\ LET f == files[idx]
         g == getline(disk[Resolve(f.path)].content, f.pos)
     IN  /\ g.fail
         /\ files' = [files EXCEPT ![idx] = [f EXCEPT !.pos = g.pos, !.eof = g.eof, !.fail = TRUE]]
  /\ failRound' = [failRound EXCEPT ![idx] = iterations]
  /\ got' = got
  /\ AfterVisit(FALSE)
  /\ UNCHANGED <<filePaths, written, anyAlive, iterations, out, outSrc, readRounds>>
  /\ UNCHANGED <<matchVars, envVars, hashOf, cerr, idemVars, expandVars, mainVars>>

\* lines 122, 149-151: the while test fails, the summary is printed, the call returns
MergeComplete ==
  /\ pc = "round"
  /\ ~anyAlive
  /\ pc' = "returned"
  /\ UNCHANGED <<filePaths, files, written, anyAlive, iterations, idx, out, outSrc,
                 readRounds, failRound, roundGot, got>>
  /\ UNCHANGED <<matchVars, envVars, hashOf, cerr, idemVars, expandVars, mainVars>>

WeaveMergeDedup ==
  \/ OpenFiles
  \/ RoundStart
  \/ VisitSkip
  \/ VisitRead
  \/ VisitEof
  \/ MergeComplete

\* a file that does not open, or one that opens and holds at most n bytes
FileStates(n) ==
  {[openable |-> FALSE, content |-> <<>>]}
    \cup {[openable |-> TRUE, content |-> c] : c \in SeqsUpTo(FileBytes, n)}

RECURSIVE FileLists(_, _)
\* every list of n files with at most budget bytes in all
FileLists(n, budget) ==
  IF n = 0 THEN {<<>>}
  ELSE UNION {{<<f>> \o rest : rest \in FileLists(n - 1, budget - Len(f.content))} :
              f \in FileStates(budget)}

MatchIdle ==
  /\ text = <<>>
  /\ pattern = <<>>
  /\ matchPc = "idle"
  /\ matchResult = FALSE

ExpandIdle ==
  /\ fs = <<>>
  /\ patterns = <<>>
  /\ patIdx = 0
  /\ result = <<>>
  /\ epc = "idle"
  /\ origin = <<>>

MainIdle ==
  /\ args = <<>>
  /\ outOpenable = TRUE
  /\ mpc = "idle"
  /\ exitKind = "running"

InitMatch ==
  /\ ExpandIdle
  /\ MainIdle
  /\ disk = <<>>
  /\ hashOf = <<>>
  /\ MergeEntry(<<>>, "idle")
  /\ cerr = <<>>
  /\ phase = 0
  /\ out1 = <<>>
  /\ text \in SeqsUpTo(MatchChars, MaxText)
  /\ pattern \in SeqsUpTo(MatchChars, MaxPattern)
  /\ matchPc = "call"
  /\ matchResult = FALSE

CallWildcardMatch ==
  /\ matchPc = "call"
  /\ matchResult' = wildcardMatch(text, pattern)
  /\ matchPc' = "returned"
  /\ UNCHANGED <<text, pattern, envVars, hashOf, mergeVars, cerr, idemVars, expandVars,
                 mainVars>>

NextMatch == CallWildcardMatch

SpecMatch == InitMatch /\ [][NextMatch]_vars

InitExpand ==
  /\ MatchIdle
  /\ MainIdle
  /\ MergeEntry(<<>>, "idle")
  /\ disk = <<>>
  /\ hashOf = <<>>
  /\ cerr = <<>>
  /\ phase = 0
  /\ out1 = <<>>
  /\ \E here \in {d \in Directories : d.kind = "dir"}, there \in Directories :
       fs = (<<".">> :> here) @@ (<<"d">> :> there)
  /\ patterns \in SeqsUpTo(PatternSet, MaxPatterns)
  /\ patIdx = 1
  /\ result = <<>>
  /\ origin = <<>>
  /\ epc = "loop"

NextExpand == ExpandFilePaths

SpecExpand == InitExpand /\ [][NextExpand]_vars

InitMerge ==
  /\ MatchIdle
  /\ ExpandIdle
  /\ MainIdle
  /\ \E n \in 1 .. MaxFiles :
       LET paths == [k \in 1 .. n |-> PathOf(k)]
       IN  /\ \E fl \in FileLists(n, MaxTotal) :
                disk = [q \in {PathOf(k) : k \in 1 .. n} |->
                          fl[CHOOSE k \in 1 .. n : PathOf(k) = q]]
           /\ MergeEntry(paths, "open")
  /\ hashOf = <<>>
  /\ cerr = <<>>
  /\ phase = 0
  /\ out1 = <<>>

NextMerge == WeaveMergeDedup

SpecMerge == InitMerge /\ [][NextMerge]_vars

\* the while loop is sequential code: a step that can be taken is taken
FairSpecMerge == SpecMerge /\ WF_vars(NextMerge)

(***************************************************************************)
(* merge([f]) followed by merge([f, f]) in the same process                *)
(***************************************************************************)
InitIdem ==
  /\ MatchIdle
  /\ ExpandIdle
  /\ MainIdle
  /\ disk \in [{PathOf(1)} -> FileStates(MaxTotal)]
  /\ MergeEntry(<<PathOf(1)>>, "open")
  /\ hashOf = <<>>
  /\ cerr = <<>>
  /\ phase = 1
  /\ out1 = <<>>

\* the first call has returned; the same path is now passed twice
CallAgain ==
  /\ phase = 1
  /\ pc = "returned"
  /\ phase' = 2
  /\ out1' = out
  /\ MergeCall(<<PathOf(1), PathOf(1)>>)
  /\ UNCHANGED <<matchVars, envVars, hashOf, cerr, expandVars, mainVars>>

NextIdem == WeaveMergeDedup \/ CallAgain

SpecIdem == InitIdem /\ [][NextIdem]_vars

(***************************************************************************)
(* main                                                                    *)
(***************************************************************************)
\* the arguments "-o" and "--output", as the strings they are
OptO == [dir |-> <<>>, name |-> <<"-", "o">>]
OptOutput == [dir |-> <<>>, name |-> <<"-", "-", "o", "u", "t", "p", "u", "t">>]

RECURSIVE ParseArgs(_, _, _)
\* lines 169-182: the arguments from the i-th on; "-o" and "--output" take the
\* next argument as the output file, every other argument is a pattern
ParseArgs(a, i, pats) ==
  IF i > Len(a) THEN [ok |-> TRUE, filePatterns |-> pats]
  ELSE IF a[i] \in {OptO, OptOutput}
       THEN IF i + 1 <= Len(a)
            THEN ParseArgs(a, i + 2, pats)
            ELSE [ok |-> FALSE, filePatterns |-> pats]
       ELSE ParseArgs(a, i + 1, Append(pats, a[i]))

\* the process ends: return from main, or std::terminate
Exit(kind) ==
  /\ mpc' = "exit"
  /\ exitKind' = kind

\* lines 158-163: no argument at all
MainUsage ==
  /\ mpc = "start"
  /\ args = <<>>
  /\ cerr' = Append(cerr, <<"Usage", <<>>>>)
  /\ Exit("return 1")
  /\ UNCHANGED <<args, matchVars, envVars, hashOf, mergeVars, idemVars, expandVars>>

\* lines 165-191: the arguments are parsed and expandFilePaths is called
MainParse ==
  /\ mpc = "start"
  /\ args # <<>>
  /\ LET parsed == ParseArgs(args, 1, <<>>)
     IN  IF ~parsed.ok
         THEN /\ cerr' = Append(cerr, <<"Error: -o/--output requires a filename", <<>>>>)
              /\ Exit("return 1")
              /\ UNCHANGED expandVars
         ELSE IF parsed.filePatterns = <<>>
         THEN /\ cerr' = Append(cerr, <<"Error: No input files specified", <<>>>>)
              /\ Exit("return 1")
              /\ UNCHANGED expandVars
         ELSE /\ ExpandCall(parsed.filePatterns)
              /\ mpc' = "expand"
              /\ UNCHANGED <<cerr, exitKind>>
  /\ UNCHANGED <<args, matchVars, envVars, hashOf, mergeVars, idemVars>>

\* the filesystem_error that left expandFilePaths is caught nowhere
MainTerminate ==
  /\ mpc = "expand"
  /\ epc = "thrown"
  /\ Exit("terminate")
  /\ UNCHANGED <<args, matchVars, envVars, hashOf, mergeVars, cerr, idemVars, expandVars>>

\* lines 193-196: expandFilePaths returned no path
MainNoFiles ==
  /\ mpc = "expand"
  /\ epc = "returned"
  /\ result = <<>>
  /\ cerr' = Append(cerr, <<"Error: No valid input files found", <<>>>>)
  /\ Exit("return 1")
  /\ UNCHANGED <<args, matchVars, envVars, hashOf, mergeVars, idemVars, expandVars>>

\* lines 209-213: the output file cannot be created
MainNoOutput ==
  /\ mpc = "expand"
  /\ epc = "returned"
  /\ result # <<>>
  /\ ~outOpenable
  /\ cerr' = Append(cerr, <<"Error: Could not open output file", <<>>>>)
  /\ Exit("return 1")
  /\ UNCHANGED <<args, matchVars, envVars, hashOf, mergeVars, idemVars, expandVars>>

\* lines 209-218: the output file is created and weaveMergeDedup is called
MainMerge ==
  /\ mpc = "expand"
  /\ epc = "returned"
  /\ result # <<>>
  /\ outOpenable
  /\ MergeCall(result)
  /\ mpc' = "merge"
  /\ UNCHANGED <<args, exitKind, matchVars, envVars, hashOf, cerr, idemVars, expandVars>>

\* lines 220-222: weaveMergeDedup has returned, whatever it did.  (The flush of
\* out when main returns, after outBuffer of line 214 is gone, is left out.)
MainDone ==
  /\ mpc = "merge"
  /\ pc = "returned"
  /\ Exit("return 0")
  /\ UNCHANGED <<args, matchVars, envVars, hashOf, mergeVars, cerr, idemVars, expandVars>>

Main ==
  \/ MainUsage
  \/ MainParse
  \/ MainTerminate
  \/ MainNoFiles
  \/ MainNoOutput
  \/ MainMerge
  \/ MainDone

\* the arguments of a run: the output option and two patterns
ArgSet == {OptO, [dir |-> <<>>, name |-> <<"a">>], [dir |-> <<>>, name |-> <<"?">>]}
\* what the regular files of a run hold
MainFileStates ==
  {[openable |-> FALSE, content |-> <<>>],
   [openable |-> TRUE, content |-> <<"a">>],
   [openable |-> TRUE, content |-> <<"b", NL, "a", NL>>]}

InitMain ==
  /\ MatchIdle
  /\ MergeEntry(<<>>, "idle")
  /\ hashOf = <<>>
  /\ cerr = <<>>
  /\ phase = 0
  /\ out1 = <<>>
  /\ \E here \in {d \in Directories : d.kind = "dir"} :
       fs = (<<".">> :> here)
  /\ disk \in [{[dir |-> <<".">>, name |-> n] : n \in EntryNames} -> MainFileStates]
  /\ \A f \in DOMAIN disk : Stat(f) # "regular" => ~disk[f].openable
  /\ outOpenable \in BOOLEAN
  /\ args \in SeqsUpTo(ArgSet, MaxArgs)
  /\ mpc = "start"
  /\ exitKind = "running"
  /\ patterns = <<>>
  /\ patIdx = 0
  /\ result = <<>>
  /\ origin = <<>>
  /\ epc = "idle"

NextMain == Main \/ ExpandFilePaths \/ WeaveMergeDedup

SpecMain == InitMain /\ [][NextMain]_vars

(***************************************************************************)
(* What the claims speak of.                                               *)
(***************************************************************************)
\* the lines of a file: the text between newlines, and the text after the last
\* newline when there is any
NLPos(c) == {k \in 1 .. Len(c) : c[k] = NL}
NthNL(c, j) == CHOOSE k \in NLPos(c) : Cardinality({m \in NLPos(c) : m <= k}) = j
LineCount(c) ==
  Cardinality(NLPos(c)) + (IF Len(c) > 0 /\ c[Len(c)] # NL THEN 1 ELSE 0)
LineAt(c, j) ==
  LET from == IF j = 1 THEN 1 ELSE NthNL(c, j - 1) + 1
      to == IF j <= Cardinality(NLPos(c)) THEN NthNL(c, j) - 1 ELSE Len(c)
  IN  SubSeq(c, from, to)

\* the inputs of the merge: the paths of filePaths that can be opened, in the
\* order of filePaths; and the content of the i-th of them
Inputs == SelectSeq(filePaths, LAMBDA q : disk[Resolve(q)].openable)
ContentOf(i) == disk[Resolve(Inputs[i])].content
\* the content behind cursor i
CursorContent(i) == disk[Resolve(files[i].path)].content
\* the line occurrences of the opened inputs, <<cursor, round>>, and their content
Occurrences ==
  UNION {{<<i, r>> : r \in 1 .. LineCount(ContentOf(i))} : i \in 1 .. Len(Inputs)}
LineOf(o) == LineAt(ContentOf(o[1]), o[2])
AllLines == {LineOf(o) : o \in Occurrences}
\* round-robin order: by round, and within a round by cursor
Before(o1, o2) == o1[2] < o2[2] \/ (o1[2] = o2[2] /\ o1[1] < o2[1])
\* every occurrence in round-robin order
RoundRobin ==
  LET rank(o) == Cardinality({q \in Occurrences : Before(q, o)}) + 1
  IN  [k \in 1 .. Cardinality(Occurrences) |->
         LineOf(CHOOSE o \in Occurrences : rank(o) = k)]
Range(s) == {s[k] : k \in DOMAIN s}
\* the merge loop has run to its end
Merged == pc = "returned" /\ files # <<>>
AllHashed == AllLines \subseteq DOMAIN hashOf

\* C1 as stated: inputs whose lines are pairwise distinct are written in
\* round-robin order, every line of them.
RoundRobinOfDistinctLines ==
  (Merged /\ \A o1, o2 \in Occurrences : o1 # o2 => LineOf(o1) # LineOf(o2))
    => out = RoundRobin

\* C1 amended: inputs whose lines have pairwise distinct hashes are written in
\* round-robin order, every line of them.
RoundRobinOfDistinctHashes ==
  Merged =>
    /\ AllHashed
    /\ (\A o1, o2 \in Occurrences : o1 # o2 => hashOf[LineOf(o1)] # hashOf[LineOf(o2)])
         => out = RoundRobin

\* two inputs of different lengths with distinct hashes throughout were merged
RoundRobinWitness ==
  /\ Merged
  /\ AllHashed
  /\ \A o1, o2 \in Occurrences : o1 # o2 => hashOf[LineOf(o1)] # hashOf[LineOf(o2)]
  /\ Len(files) = 2
  /\ LineCount(ContentOf(1)) = 1
  /\ LineCount(ContentOf(2)) = 2

\* C2: a line whose content occurred earlier in round-robin order is never
\* written: every line of out is the first occurrence of its content, and out
\* holds no content twice.
FirstOccurrenceOnly ==
  pc \in {"round", "visit", "returned"} =>
    /\ \A j, k \in 1 .. Len(out) : j # k => out[j] # out[k]
    /\ \A k \in 1 .. Len(out) :
         /\ outSrc[k] \in Occurrences
         /\ LineOf(outSrc[k]) = out[k]
         /\ \A o \in Occurrences : Before(o, outSrc[k]) => LineOf(o) # out[k]

\* the second input's first line repeats the first input's, and its second line
\* is written
FirstOccurrenceWitness ==
  /\ Merged
  /\ Len(files) = 2
  /\ <<1, 1>> \in Occurrences /\ <<2, 1>> \in Occurrences /\ <<2, 2>> \in Occurrences
  /\ LineOf(<<1, 1>>) = LineOf(<<2, 1>>)
  /\ Len(out) = 2
  /\ outSrc = << <<1, 1>>, <<2, 2>> >>

\* C3 as stated: the output holds every distinct line of the inputs, once.
EveryDistinctLineWritten ==
  Merged => Len(out) = Cardinality(AllLines) /\ Range(out) = AllLines

\* C3 amended: the output holds one line per distinct hash of the inputs' lines,
\* the first line in round-robin order with that hash.
EveryDistinctHashWritten ==
  Merged =>
    /\ AllHashed
    /\ Len(out) = Cardinality({hashOf[l] : l \in AllLines})
    /\ \A o \in Occurrences :
         (\A q \in Occurrences : Before(q, o) => hashOf[LineOf(q)] # hashOf[LineOf(o)])
           => \E k \in 1 .. Len(out) : outSrc[k] = o /\ out[k] = LineOf(o)

\* two inputs with repeated lines and two distinct hashes were merged
EveryDistinctHashWitness ==
  /\ Merged
  /\ AllHashed
  /\ Len(files) = 2
  /\ Cardinality(Occurrences) > Cardinality(AllLines)
  /\ Cardinality({hashOf[l] : l \in AllLines}) = 2
  /\ Len(out) = 2

\* C4: merging [f, f] writes the same sequence of lines as merging [f].
MergeTwiceSame ==
  (phase = 2 /\ pc = "returned") => out = out1

\* [f, f] was merged for an f of two lines that are both written
MergeTwiceWitness ==
  /\ phase = 2
  /\ pc = "returned"
  /\ Len(files) = 2
  /\ Len(out1) = 2

\* every line of every input has been read
AllRead ==
  \A i \in 1 .. Len(files) :
    /\ files[i].pos = Len(CursorContent(i))
    /\ Len(readRounds[i]) = LineCount(CursorContent(i))

\* the loop ends at the first round in which no input yields a line
EndsAtFirstEmptyRound ==
  /\ \A k \in 1 .. Len(roundGot) - 1 : roundGot[k] > 0
  /\ (pc = "round" /\ iterations > 0) => (anyAlive <=> roundGot[Len(roundGot)] > 0)
  /\ Merged => (roundGot # <<>> /\ roundGot[Len(roundGot)] = 0)

\* C9: the round loop ends, it ends at the first round in which no input yields
\* a line, and every line of every input has then been read.
MergeTerminates ==
  /\ <>(pc = "returned")
  /\ [](EndsAtFirstEmptyRound /\ (Merged => AllRead))

\* a merge of a file ending in a newline and one not ending in one has ended,
\* in its third round
MergeTerminatesWitness ==
  /\ Merged
  /\ Len(roundGot) = 3
  /\ Len(files) = 2
  /\ CursorContent(1) = <<"a", NL>>
  /\ CursorContent(2) = <<NL, "b">>

\* C10: at most one line per input and round; an input that failed to yield a
\* line is not read again; at the end of round r every input with unread lines
\* has had r lines read; the read counts of inputs with unread lines differ by
\* at most one.
FairWeave ==
  pc \in {"round", "visit", "returned"} =>
    \A i \in 1 .. Len(files) :
      LET unread(j) == files[j].pos < Len(CursorContent(j))
      IN  /\ \A j, k \in 1 .. Len(readRounds[i]) : j < k => readRounds[i][j] < readRounds[i][k]
          /\ failRound[i] # 0 => \A k \in 1 .. Len(readRounds[i]) : readRounds[i][k] < failRound[i]
          /\ (pc = "round" /\ unread(i)) => Len(readRounds[i]) = iterations
          /\ \A j \in 1 .. Len(files) :
               (unread(i) /\ unread(j)) =>
                 Len(readRounds[i]) - Len(readRounds[j]) \in {-1, 0, 1}

\* the second round has ended, one input has failed to yield a line and another
\* still has lines
FairWeaveWitness ==
  /\ pc = "round"
  /\ iterations = 2
  /\ \E i \in 1 .. Len(files) : failRound[i] # 0
  /\ \E j \in 1 .. Len(files) : files[j].pos < Len(CursorContent(j))

RECURSIVE GlobMatches(_, _)
\* the glob relation itself: '*' for zero or more characters, '?' for exactly
\* one, any other pattern character for itself, whole string against whole pattern
GlobMatches(t, p) ==
  IF p = <<>> THEN t = <<>>
  ELSE IF Head(p) = "*"
       THEN GlobMatches(t, Tail(p)) \/ (t # <<>> /\ GlobMatches(Tail(t), p))
       ELSE IF Head(p) = "?"
            THEN t # <<>> /\ GlobMatches(Tail(t), Tail(p))
            ELSE t # <<>> /\ Head(t) = Head(p) /\ GlobMatches(Tail(t), Tail(p))

\* C5: wildcardMatch(candidate, pattern) is true exactly when the whole candidate
\* matches the whole pattern as a glob, for candidates and patterns over ordinary
\* characters, '*' and '?'.
GlobFullMatch ==
  matchPc = "returned" => (matchResult <=> GlobMatches(text, pattern))

Count(q, x) == Cardinality({k \in DOMAIN q : q[k] = x})
\* the positions of the literal patterns, and of those handled so far
Literals == {k \in 1 .. Len(patterns) : ~HasWildcard(patterns[k])}
HandledLiterals == {k \in Literals : k < patIdx}
NotFoundWarning(p) == <<"Warning: File not found or not a regular file", p>>
ErrorMessages ==
  {"Error: -o/--output requires a filename", "Error: No input files specified",
   "Error: No valid input files found", "Error: Could not open output file",
   "Error: No files could be opened for weave-merge"}

\* C6: a run in which no file is resolved, no resolved file opens, or the output
\* file cannot be created ends with a reported error and a non-zero exit code.
FatalErrorsExitNonZero ==
  LET noneResolved == epc = "returned" /\ result = <<>>
      noOutput == epc = "returned" /\ result # <<>> /\ ~outOpenable
      noneOpened == pc = "returned" /\ files = <<>>
  IN  (mpc = "exit" /\ (noneResolved \/ noOutput \/ noneOpened)) =>
        /\ exitKind # "return 0"
        /\ \E k \in 1 .. Len(cerr) : cerr[k][1] \in ErrorMessages

RECURSIVE GlobFiles(_, _, _)
\* what a glob in directory d contributes: the regular entries matching it, in
\* listing order, up to the entry at which the listing fails
GlobFiles(entries, d, g) ==
  IF entries = <<>> \/ Head(entries).kind = "error" THEN <<>>
  ELSE (IF Head(entries).kind = "regular" /\ GlobMatches(Head(entries).name, g)
        THEN <<[dir |-> d, name |-> Head(entries).name]>> ELSE <<>>)
       \o GlobFiles(Tail(entries), d, g)

\* what the k-th pattern contributes when its problems are only its own
Contribution(k) ==
  LET p == patterns[k]
  IN  IF HasWildcard(p)
      THEN IF DirStatus(ParentPath(p)) = "dir"
           THEN GlobFiles(fs[ParentPath(p)].entries, ParentPath(p), p.name)
           ELSE <<>>
      ELSE IF Stat(p) = "regular" THEN <<p>> ELSE <<>>

RECURSIVE Contributions(_)
Contributions(k) == IF k = 0 THEN <<>> ELSE Contributions(k - 1) \o Contribution(k)

\* C7: expandFilePaths returns normally whatever the file system holds, and its
\* result is what the patterns contribute one by one, in pattern order.
PerPatternIsolation ==
  /\ epc # "thrown"
  /\ epc = "returned" => result = Contributions(Len(patterns))

\* C8 as stated: in the resolved list a literal pattern naming a regular file
\* appears exactly once; one naming a missing file or a non-regular entry does
\* not appear and is warned about.
LiteralExactlyOnce ==
  epc = "returned" =>
    \A k \in Literals :
      IF Stat(patterns[k]) = "regular"
      THEN Count(result, patterns[k]) = 1
      ELSE /\ Count(result, patterns[k]) = 0
           /\ Count(cerr, NotFoundWarning(patterns[k])) >= 1

\* C8 amended: each occurrence of a literal pattern that is handled adds its path
\* exactly once when it names a regular file, and adds nothing and is warned
\* about once when it names a missing file or a non-regular entry.
LiteralOncePerOccurrence ==
  \A k \in HandledLiterals :
    LET added == {j \in 1 .. Len(result) : origin[j] = k}
        p == patterns[k]
    IN  IF Stat(p) = "regular"
        THEN /\ Cardinality(added) = 1
             /\ \A j \in added : result[j] = p
        ELSE /\ added = {}
             /\ Count(cerr, NotFoundWarning(p))
                  = Cardinality({m \in HandledLiterals : patterns[m] = p})

\* a literal naming a regular file and a literal naming a missing file were
\* handled
LiteralOnceWitness ==
  /\ epc = "returned"
  /\ Len(patterns) = 2
  /\ Literals = {1, 2}
  /\ Stat(patterns[1]) = "regular"
  /\ Stat(patterns[2]) = "missing"
  /\ result = <<patterns[1]>>
  /\ cerr = <<NotFoundWarning(patterns[2])>>

=============================================================================
